---- MODULE Spec2Model ----
(***************************************************************************)
(* A model of the i281 assembler (src/src/i281compiler.py).                *)
(*                                                                         *)
(* Text is modelled as Python sees it: a string is a sequence of           *)
(* one-character strings, so that the lexical cleanup, the tokenizer, the  *)
(* integer parser and the binary renderer are computed character by        *)
(* character.  A raised exception is modelled by the field err of the      *)
(* record an operator returns: "none" when nothing was raised, the         *)
(* error_type given to produceException for a diagnostic of the assembler, *)
(* and PyIndexError, PyKeyError, PyValueError for the exceptions the       *)
(* Python runtime raises itself (all are caught by main's                  *)
(* `except Exception`).                                                    *)
(***************************************************************************)
EXTENDS Integers, Sequences, FiniteSets, TLC

VARIABLES arguments_input, file_index, pc, file_lines, data_line_number,
          code_line_number, _variables, _branch_destinations, machine_code,
          output, failed, succeeded

vars == <<arguments_input, file_index, pc, file_lines, data_line_number,
          code_line_number, _variables, _branch_destinations, machine_code,
          output, failed, succeeded>>

----------------------------------------------------------------------------
(* Constants of the program.                                               *)

_DMEM_LIMIT == 16

_MAX_CODE_LENGTH == 32

NoError == "none"

----------------------------------------------------------------------------
(* Python string and list primitives.                                      *)

Digits == {"0", "1", "2", "3", "4", "5", "6", "7", "8", "9"}

Letters == {"A", "B", "C", "D", "E", "F", "G", "H", "I", "J", "K", "L", "M",
            "N", "O", "P", "Q", "R", "S", "T", "U", "V", "W", "X", "Y", "Z",
            "a", "b", "c", "d", "e", "f", "g", "h", "i", "j", "k", "l", "m",
            "n", "o", "p", "q", "r", "s", "t", "u", "v", "w", "x", "y", "z"}

\* The element of a one-element set.  A local of the program is assigned
\* once and read many times: Only({e(x) : x \in {v}}) is e for the x that
\* has the value of v.
Only(S) == CHOOSE x \in S : TRUE

\* s[from:] with a zero-based, non-negative start
SliceFrom(s, from) == SubSeq(s, from + 1, Len(s))

\* s[:to] with a zero-based, non-negative end
SliceTo(s, to) == SubSeq(s, 1, IF to < Len(s) THEN to ELSE Len(s))

\* s.find(sub): the zero-based index of the first occurrence, or -1
Find(s, sub) ==
    Only({IF hits = {} THEN -1 ELSE CHOOSE i \in hits : \A j \in hits : i <= j :
          hits \in {{i \in 0..(Len(t) - Len(sub)) :
                       SubSeq(t, i + 1, i + Len(sub)) = sub} : t \in {s}}})

\* s.replace(c, with) for a one-character c; the text is halved, so that the
\* evaluation stays shallow on long lines
RECURSIVE Replace(_, _, _)
Replace(s, c, with) ==
    Only({IF \A i \in 1..Len(t) : t[i] # c THEN t
          ELSE IF Len(t) = 1 THEN with
          ELSE Replace(SubSeq(t, 1, Len(t) \div 2), c, with)
               \o Replace(SubSeq(t, Len(t) \div 2 + 1, Len(t)), c, with) :
          t \in {s}})

\* s.split(c) for a one-character c: the pieces between the separators
RECURSIVE Split(_, _)
Split(s, c) ==
    Only({IF \A i \in 1..Len(t) : t[i] # c THEN <<t>>
          ELSE IF Len(t) = 1 THEN <<<<>>, <<>>>>
          ELSE Only({SubSeq(left, 1, Len(left) - 1)
                     \o <<left[Len(left)] \o right[1]>>
                     \o SubSeq(right, 2, Len(right)) :
                     left \in {Split(SubSeq(t, 1, Len(t) \div 2), c)},
                     right \in {Split(SubSeq(t, Len(t) \div 2 + 1, Len(t)), c)}}) :
          t \in {s}})

\* list(filter((x).__ne__, list))
FilterNe(list, x) == SelectSeq(list, LAMBDA e : e # x)

\* str.isdigit()
IsDigit(s) == Len(s) > 0 /\ \A i \in 1..Len(s) : s[i] \in Digits

\* str.isalnum()
IsAlnum(s) == Len(s) > 0 /\ \A i \in 1..Len(s) : s[i] \in Digits \cup Letters

DigitValue(c) ==
    CASE c = "0" -> 0 [] c = "1" -> 1 [] c = "2" -> 2 [] c = "3" -> 3
      [] c = "4" -> 4 [] c = "5" -> 5 [] c = "6" -> 6 [] c = "7" -> 7
      [] c = "8" -> 8 [] c = "9" -> 9

RECURSIVE DecimalValue(_)
DecimalValue(s) ==
    IF s = <<>> THEN 0
    ELSE 10 * DecimalValue(SubSeq(s, 1, Len(s) - 1)) + DigitValue(s[Len(s)])

\* int(s): an optional sign followed by decimal digits, else ValueError
PyInt(s) ==
    IF IsDigit(s) THEN [err |-> NoError, val |-> DecimalValue(s)]
    ELSE IF Len(s) > 1 /\ s[1] = "-" /\ IsDigit(Tail(s))
         THEN [err |-> NoError, val |-> 0 - DecimalValue(Tail(s))]
    ELSE IF Len(s) > 1 /\ s[1] = "+" /\ IsDigit(Tail(s))
         THEN [err |-> NoError, val |-> DecimalValue(Tail(s))]
    ELSE [err |-> "PyValueError", val |-> 0]

\* bin(n)[2:] for n >= 0
RECURSIVE Bin(_)
Bin(n) ==
    IF n < 2 THEN <<IF n = 1 THEN "1" ELSE "0">>
    ELSE Bin(n \div 2) \o <<IF n % 2 = 1 THEN "1" ELSE "0">>

\* c * n for a one-character c
Repeat(c, n) == [i \in 1..n |-> c]

----------------------------------------------------------------------------
(* The mnemonics, written as Python strings.                               *)

NOOP == <<"N", "O", "O", "P">>

INPUTC == <<"I", "N", "P", "U", "T", "C">>

INPUTCF == <<"I", "N", "P", "U", "T", "C", "F">>

INPUTD == <<"I", "N", "P", "U", "T", "D">>

INPUTDF == <<"I", "N", "P", "U", "T", "D", "F">>

MOVE == <<"M", "O", "V", "E">>

LOADI == <<"L", "O", "A", "D", "I">>

LOADP == <<"L", "O", "A", "D", "P">>

ADD == <<"A", "D", "D">>

ADDI == <<"A", "D", "D", "I">>

SUB == <<"S", "U", "B">>

SUBI == <<"S", "U", "B", "I">>

LOAD == <<"L", "O", "A", "D">>

LOADF == <<"L", "O", "A", "D", "F">>

STORE == <<"S", "T", "O", "R", "E">>

STOREF == <<"S", "T", "O", "R", "E", "F">>

SHIFTL == <<"S", "H", "I", "F", "T", "L">>

SHIFTR == <<"S", "H", "I", "F", "T", "R">>

CMP == <<"C", "M", "P">>

JUMP == <<"J", "U", "M", "P">>

BRE == <<"B", "R", "E">>

BRZ == <<"B", "R", "Z">>

BRNE == <<"B", "R", "N", "E">>

BRNZ == <<"B", "R", "N", "Z">>

BRG == <<"B", "R", "G">>

BRGE == <<"B", "R", "G", "E">>

BYTE == <<"B", "Y", "T", "E">>

----------------------------------------------------------------------------
(* Tables of the program.                                                  *)

_instruction_dictionary ==
    (NOOP :> <<"0", "0", "0", "0", "_">>) @@
    (INPUTC :> <<"0", "0", "0", "1", "_">>) @@
    (INPUTCF :> <<"0", "0", "0", "1", "_">>) @@
    (INPUTD :> <<"0", "0", "0", "1", "_">>) @@
    (INPUTDF :> <<"0", "0", "0", "1", "_">>) @@
    (MOVE :> <<"0", "0", "1", "0", "_">>) @@
    (LOADI :> <<"0", "0", "1", "1", "_">>) @@
    (LOADP :> <<"0", "0", "1", "1", "_">>) @@
    (ADD :> <<"0", "1", "0", "0", "_">>) @@
    (ADDI :> <<"0", "1", "0", "1", "_">>) @@
    (SUB :> <<"0", "1", "1", "0", "_">>) @@
    (SUBI :> <<"0", "1", "1", "1", "_">>) @@
    (LOAD :> <<"1", "0", "0", "0", "_">>) @@
    (LOADF :> <<"1", "0", "0", "1", "_">>) @@
    (STORE :> <<"1", "0", "1", "0", "_">>) @@
    (STOREF :> <<"1", "0", "1", "1", "_">>) @@
    (SHIFTL :> <<"1", "1", "0", "0", "_">>) @@
    (SHIFTR :> <<"1", "1", "0", "0", "_">>) @@
    (CMP :> <<"1", "1", "0", "1", "_">>) @@
    (JUMP :> <<"1", "1", "1", "0", "_">>) @@
    (BRE :> <<"1", "1", "1", "1", "_">>) @@
    (BRZ :> <<"1", "1", "1", "1", "_">>) @@
    (BRNE :> <<"1", "1", "1", "1", "_">>) @@
    (BRNZ :> <<"1", "1", "1", "1", "_">>) @@
    (BRG :> <<"1", "1", "1", "1", "_">>) @@
    (BRGE :> <<"1", "1", "1", "1", "_">>)

_instruction_jumps == {JUMP, BRE, BRZ, BRNE, BRNZ, BRG, BRGE}

_register_values ==
    (<<"A">> :> <<"0", "0", "_">>) @@
    (<<"B">> :> <<"0", "1", "_">>) @@
    (<<"C">> :> <<"1", "0", "_">>) @@
    (<<"D">> :> <<"1", "1", "_">>)

isOpcodeValid(opcode) == opcode \in DOMAIN _instruction_dictionary

isJumpOpcode(opcode) == opcode \in _instruction_jumps

----------------------------------------------------------------------------
(* splitLine                                                               *)

splitLine(line, removal_string) == FilterNe(Split(line, " "), removal_string)

----------------------------------------------------------------------------
(* analyzeFile                                                             *)

DotData == <<".", "d", "a", "t", "a">>

DotCode == <<".", "c", "o", "d", "e">>

\* Lines 128-134: every punctuation character is surrounded by spaces.
SpacePunctuation(line) ==
    LET l1 == Replace(line, ",", <<" ", ",", " ">>)
        l2 == Replace(l1, "]", <<" ", "]", " ">>)
        l3 == Replace(l2, "[", <<" ", "[", " ">>)
        l4 == Replace(l3, "}", <<" ", "}", " ">>)
        l5 == Replace(l4, "{", <<" ", "{", " ">>)
        l6 == Replace(l5, "+", <<" ", "+", " ">>)
    IN  Replace(l6, "-", <<" ", "-", " ">>)

\* Lines 128-143: the cleaned text of a line that is more than a comment.
CleanLine(line) ==
    Only({IF comment > -1 THEN SliceTo(spaced, comment) \o <<"\n">>
          ELSE spaced \o <<"\n">> :
          <<spaced, comment>> \in
              {<<t, Find(t, <<";">>)>> :
                  t \in {Replace(SpacePunctuation(line), "\t", <<" ">>)}}})

\* Line 125
IsKept(line) == Len(line) > 0 /\ line[1] # "\n" /\ line[1] # ";"

\* Lines 125-171 for one kept line: the state of the loop after it.
AnalyzeLine(st, raw) ==
    Only({IF Find(line, DotData) > -1
          THEN IF st.data_line_number # -1
               THEN [st EXCEPT !.err = "SectionError"]
               ELSE [st EXCEPT !.data_line_number = st.line_number,
                               !.file_string = st.file_string \o line,
                               !.line_number = st.line_number + 1]
          ELSE IF Find(line, DotCode) > -1
          THEN IF st.code_line_number # -1
               THEN [st EXCEPT !.err = "SectionError"]
               ELSE [st EXCEPT !.code_line_number = st.line_number,
                               !.file_string = st.file_string \o line,
                               !.line_number = st.line_number + 1]
          ELSE [st EXCEPT !.file_string = st.file_string \o line,
                          !.line_number = st.line_number + 1] :
          line \in {CleanLine(raw)}})

\* The loop of lines 120-171 over lines[lo..hi], from its state st before
\* them; the range is halved, so that the evaluation stays shallow.  A line
\* after the one that raised is not processed.
RECURSIVE AnalyzeLoop(_, _, _, _)
AnalyzeLoop(lines, lo, hi, st) ==
    IF lo > hi \/ st.err # NoError THEN st
    ELSE IF lo = hi
         THEN (IF IsKept(lines[lo]) THEN AnalyzeLine(st, lines[lo]) ELSE st)
    ELSE Only({AnalyzeLoop(lines, (lo + hi) \div 2 + 1, hi, first) :
               first \in {AnalyzeLoop(lines, lo, (lo + hi) \div 2, st)}})

\* Line 182: the length check on the cleaned program.
CodeTooLong(line_number, code_line) == line_number - code_line > _MAX_CODE_LENGTH

analyzeFile(lines) ==
    Only({IF st.err # NoError THEN [err |-> st.err, new_lines |-> <<>>,
                                    data_line_number |-> st.data_line_number,
                                    code_line_number |-> st.code_line_number]
          ELSE IF st.code_line_number = -1 \/ CodeTooLong(st.line_number, st.code_line_number)
          THEN [err |-> "SectionError", new_lines |-> <<>>,
                data_line_number |-> st.data_line_number,
                code_line_number |-> st.code_line_number]
          ELSE [err |-> NoError,
                new_lines |-> Only({SubSeq(split, 1, Len(split) - 1) :
                                    split \in {Split(st.file_string, "\n")}}),
                data_line_number |-> st.data_line_number,
                code_line_number |-> st.code_line_number] :
          st \in {AnalyzeLoop(lines, 1, Len(lines),
                      [err |-> NoError, file_string |-> <<>>, line_number |-> 0,
                       data_line_number |-> -1, code_line_number |-> -1])}})

----------------------------------------------------------------------------
(* Python dictionaries.  _branch_destinations is a function from label to  *)
(* index.  _variables keeps its insertion order (writeVerilogFiles walks   *)
(* it), so it is a sequence of entries; an entry is the pair               *)
(* [value, data_address] of the program, with is_list telling which of     *)
(* value (an integer) and values (a list of tokens) is the stored value.   *)

EmptyDict == <<>>

DictPut(dict, key, value) ==
    [k \in DOMAIN dict \cup {key} |-> IF k = key THEN value ELSE dict[k]]

HasVariable(variables, name) == \E i \in 1..Len(variables) : variables[i].name = name

VariableIndex(variables, name) == CHOOSE i \in 1..Len(variables) : variables[i].name = name

\* _variables[name] = entry: a present key keeps its place, a new one is appended
SetVariable(variables, entry) ==
    IF HasVariable(variables, entry.name)
    THEN [variables EXCEPT ![VariableIndex(variables, entry.name)] = entry]
    ELSE Append(variables, entry)

ScalarEntry(name, value, address) ==
    [name |-> name, is_list |-> FALSE, value |-> value, values |-> <<>>,
     data_address |-> address]

ListEntry(name, values, address) ==
    [name |-> name, is_list |-> TRUE, value |-> 0, values |-> values,
     data_address |-> address]

----------------------------------------------------------------------------
(* findJumpLabels                                                          *)

\* A fault the indexing of the labels excludes: a label names the
\* instruction after the one of its line.
LabelIndexOfNext(line_number) == line_number + 1

\* Line 207: the index a label is bound to, line_number being the number of
\* instructions before its line
LabelIndex(line_number) == line_number

\* Lines 203-225 for one line after the .code marker: the state of the loop
\* after it.
LabelLine(st, line) ==
    Only({IF colon > -1
          THEN [st EXCEPT !.branch_destinations =
                              DictPut(@, SliceTo(line, colon),
                                      LabelIndex(st.line_number)),
                          !.new_lines = Append(@, SliceFrom(line, colon + 1)),
                          !.line_number = @ + 1]
          ELSE IF Len(line_list) < 1 THEN [st EXCEPT !.err = "PyIndexError"]
          ELSE IF ~isOpcodeValid(line_list[1]) THEN [st EXCEPT !.err = "ValueError"]
          ELSE IF isJumpOpcode(line_list[1]) /\ Len(line_list) < 2
               THEN [st EXCEPT !.err = "PyIndexError"]
          ELSE [st EXCEPT !.jump_instruction_labels =
                              IF isJumpOpcode(line_list[1])
                              THEN DictPut(@, line_list[2], st.line_number)
                              ELSE @,
                          !.new_lines = Append(@, line),
                          !.line_number = @ + 1] :
          colon \in {Find(line, <<":">>)}, line_list \in {splitLine(line, <<>>)}})

\* The loop of lines 203-225 over code_lines[lo..hi].
RECURSIVE LabelLoop(_, _, _, _)
LabelLoop(code_lines, lo, hi, st) ==
    IF lo > hi \/ st.err # NoError THEN st
    ELSE IF lo = hi THEN LabelLine(st, code_lines[lo])
    ELSE Only({LabelLoop(code_lines, (lo + hi) \div 2 + 1, hi, first) :
               first \in {LabelLoop(code_lines, lo, (lo + hi) \div 2, st)}})

\* branch_destinations is the table on entry; the result carries the table
\* as the call leaves it, also when it raises.
findJumpLabels(lines, code_line, branch_destinations) ==
    Only({[err |-> IF st.err = NoError
                      /\ \E label \in DOMAIN st.jump_instruction_labels :
                             label \notin DOMAIN st.branch_destinations
                   THEN "InstructionError" ELSE st.err,
           new_lines |-> st.new_lines,
           branch_destinations |-> st.branch_destinations] :
          st \in {LabelLoop(lines, code_line + 2, Len(lines),
                      [err |-> NoError, line_number |-> 0,
                       new_lines |-> SliceTo(lines, code_line + 1),
                       jump_instruction_labels |-> EmptyDict,
                       branch_destinations |-> branch_destinations])}})

----------------------------------------------------------------------------
(* assignVariables                                                         *)

\* Line 326: the memory limit checked after each declaration.
ExceedsDMEM(variables, data_address_number) == Len(variables) > _DMEM_LIMIT

\* Lines 305-308: what an array declaration stores.
ArrayEntry(name, values, address) ==
    IF values[Len(values)] = <<"?">>
    THEN ScalarEntry(name, 0, address)
    ELSE ListEntry(name, values, address)

\* What a declaration that raises returns.
Undeclared(kind, address) ==
    [err |-> kind, entry |-> ScalarEntry(<<>>, 0, address), size |-> 0]

\* Lines 271-323 for one line: the entry it stores and the bytes it allocates.
Declaration(line, address) ==
    Only({IF Len(tokens) < 3 THEN Undeclared("InstructionError", address)
          ELSE IF tokens[2] # BYTE THEN Undeclared("InstructionError", address)
          ELSE IF Len(tokens) > 3
          THEN IF tokens[Len(tokens)] = <<",">>
               THEN Undeclared("ValueError", address)
               ELSE Only({IF \E k \in 1..Len(values) :
                                ~IsAlnum(values[k]) /\ values[k] # <<"?">>
                          THEN Undeclared("ValueError", address)
                          ELSE [err |-> NoError,
                                entry |-> ArrayEntry(tokens[1], values, address),
                                size |-> Len(values)] :
                          values \in {FilterNe(SliceFrom(tokens, 2), <<",">>)}})
          ELSE IF tokens[3] = <<"?">>
               THEN [err |-> NoError, entry |-> ScalarEntry(tokens[1], 0, address),
                     size |-> 1]
          ELSE IF IsDigit(tokens[3])
               THEN [err |-> NoError,
                     entry |-> ScalarEntry(tokens[1], DecimalValue(tokens[3]), address),
                     size |-> 1]
          ELSE Undeclared("ValueError", address) :
          tokens \in {splitLine(line, <<>>)}})

\* Lines 269-331 for one line: the state of the loop after it.
AssignLine(st, line) ==
    Only({IF d.err # NoError THEN [st EXCEPT !.err = d.err]
          ELSE [st EXCEPT !.err = IF ExceedsDMEM(SetVariable(st.variables, d.entry),
                                                 st.data_address_number + d.size)
                                  THEN "MemoryOverflow" ELSE NoError,
                          !.variables = SetVariable(@, d.entry),
                          !.data_address_number = @ + d.size] :
          d \in {Declaration(line, st.data_address_number)}})

\* The loop of lines 269-331 over data_lines[lo..hi].
RECURSIVE AssignLoop(_, _, _, _)
AssignLoop(data_lines, lo, hi, st) ==
    IF lo > hi \/ st.err # NoError THEN st
    ELSE IF lo = hi THEN AssignLine(st, data_lines[lo])
    ELSE Only({AssignLoop(data_lines, (lo + hi) \div 2 + 1, hi, first) :
               first \in {AssignLoop(data_lines, lo, (lo + hi) \div 2, st)}})

\* variables is the table on entry; the result carries the table as the
\* call leaves it, also when it raises.
assignVariables(data_lines, variables) ==
    AssignLoop(data_lines, 1, Len(data_lines),
        [err |-> NoError, variables |-> variables, data_address_number |-> 0])

----------------------------------------------------------------------------
(* Helpers of the encoders.  An encoder returns [err, code]: the text it   *)
(* appends to the opcode, or the error it raises.                          *)
(* A local of the program that is read more than once is the parameter of  *)
(* a local operator, applied to the expression the program assigns to it.  *)

Raise(kind) == [err |-> kind, code |-> <<>>]

Code(text) == [err |-> NoError, code |-> text]

\* A fault the rendering of integers excludes: the sign is dropped.
Magnitude(value) == IF value < 0 THEN 0 - value ELSE value

\* Line 501: the bit-wise mask of the value
Mask(value) == value % 256

\* integerToBinary for an int argument: lines 498-507
integerToBinary(value) ==
    LET Padded(intermediate_value) ==
            IF Len(intermediate_value) < 8
            THEN Repeat("0", 8 - Len(intermediate_value)) \o intermediate_value
            ELSE intermediate_value
    IN  Padded(Bin(Mask(value)))

\* integerToBinary for a str argument: line 485 converts it first
integerToBinaryOfToken(token) ==
    LET Converted(value) ==
            IF value.err # NoError THEN Raise(value.err)
            ELSE Code(integerToBinary(value.val))
    IN  Converted(PyInt(token))

\* confirmInstructionLength raises ArgumentError
TooShort(instruction_length, required_length) == ~(instruction_length >= required_length)

\* confirmComma raises InstructionError
NotComma(comma_token) == comma_token # <<",">>

\* grabRegisterAddress raises ArgumentError
IsRegister(register_token) == register_token \in DOMAIN _register_values

\* A fault the address bound excludes: the upper bound is one too large.
AddressOutOfBoundsPast64(address) == address < 0 \/ address > 64

\* confirmValidAddress raises ValueError
AddressOutOfBounds(address) == address < 0 \/ address > 63

confirmValidAddress(address, throw_boundry_error) ==
    IF AddressOutOfBounds(address) /\ throw_boundry_error THEN "ValueError" ELSE NoError

\* findDataAddress, once the name is known to be declared
findDataAddress(address_token, variables) ==
    variables[VariableIndex(variables, address_token)].data_address

----------------------------------------------------------------------------
(* interpretBracket.  tokens[k] of the program is tokens[k + 1] here.      *)

\* Line 398: the token counts for which the offset and the closing bracket
\* are examined
ExaminesOffset(length, is_there_register) ==
    (~is_there_register /\ length = 5) \/ (is_there_register /\ length = 7)

\* Lines 396-424, given the base address and token_offset
BracketOffset(tokens, variable_value, token_offset, right_bracket, is_there_register) ==
    LET current_token == tokens[3 + token_offset]
        offset == tokens[4 + token_offset]
        same == [err |-> NoError, current_offset |-> variable_value,
                 was_address_offset |-> FALSE]
    IN  IF ~ExaminesOffset(Len(tokens), is_there_register) THEN same
        ELSE IF tokens[5 + token_offset] = right_bracket
        THEN IF ~IsDigit(offset) THEN [same EXCEPT !.err = "ValueError"]
             ELSE IF current_token = <<"+">>
                  THEN [same EXCEPT !.current_offset = @ + DecimalValue(offset),
                                    !.was_address_offset = TRUE]
             ELSE IF current_token = <<"-">>
                  THEN [same EXCEPT !.current_offset = @ - DecimalValue(offset),
                                    !.was_address_offset = TRUE]
             ELSE [same EXCEPT !.err = "ArgumentError"]
        ELSE IF current_token # right_bracket THEN [same EXCEPT !.err = "ValueError"]
        ELSE same

interpretBracket(tokens, variables, left_bracket, right_bracket, is_there_register, throw_boundry_error) ==
    LET results == [err |-> NoError, data_address |-> <<>>,
                    was_address_offset |-> FALSE, register_value |-> <<>>]
        token_offset == IF is_there_register THEN 2 ELSE 0
        Results(o) ==
            IF Len(tokens) < 3 THEN [results EXCEPT !.err = "ArgumentError"]
            ELSE IF tokens[1] # left_bracket THEN [results EXCEPT !.err = "ArgumentError"]
            ELSE IF ~HasVariable(variables, tokens[2])
                 THEN [results EXCEPT !.err = "ArgumentError"]
            ELSE IF is_there_register /\ tokens[3] # <<"+">>
                 THEN [results EXCEPT !.err = "ArgumentError"]
            ELSE IF is_there_register /\ Len(tokens) < 4
                 THEN [results EXCEPT !.err = "PyIndexError"]
            ELSE IF is_there_register /\ ~IsRegister(tokens[4])
                 THEN [results EXCEPT !.err = "ArgumentError"]
            ELSE IF o.err # NoError THEN [results EXCEPT !.err = o.err]
            ELSE IF confirmValidAddress(o.current_offset, throw_boundry_error) # NoError
                 THEN [results EXCEPT !.err = "ValueError"]
            ELSE [results EXCEPT !.data_address = integerToBinary(o.current_offset),
                                 !.was_address_offset = o.was_address_offset,
                                 !.register_value =
                                     IF is_there_register
                                     THEN _register_values[tokens[4]] ELSE <<>>]
    IN  Results(BracketOffset(tokens, findDataAddress(tokens[2], variables),
                              token_offset, right_bracket, is_there_register))

----------------------------------------------------------------------------
(* The encoders.  tokens are the tokens after the mnemonic.                *)

Zero8 == Repeat("0", 8)

F00 == <<"0", "0", "_">>

F01 == <<"0", "1", "_">>

F10 == <<"1", "0", "_">>

F11 == <<"1", "1", "_">>

parseNOOP(tokens) ==
    IF Len(tokens) > 0 THEN Raise("ArgumentError")
    ELSE Code(F00 \o F00 \o Zero8)

\* parseINPUTC and parseINPUTD: field is 00_ and 10_
parseINPUT(tokens, variables, field) ==
    LET Operands(results) ==
            IF TooShort(Len(tokens), 3) THEN Raise("ArgumentError")
            ELSE IF results.err # NoError THEN Raise(results.err)
            ELSE Code(F00 \o field \o results.data_address)
    IN  Operands(interpretBracket(tokens, variables, <<"[">>, <<"]">>, FALSE, TRUE))

\* parseINPUTCF and parseINPUTDF: field is 01_ and 11_
parseINPUTF(tokens, variables, field) ==
    LET Operands(results) ==
            IF TooShort(Len(tokens), 3) THEN Raise("ArgumentError")
            ELSE IF results.err # NoError THEN Raise(results.err)
            ELSE Code(results.register_value \o field \o results.data_address)
    IN  Operands(interpretBracket(tokens, variables, <<"[">>, <<"]">>, TRUE, TRUE))

\* parseMACS: MOVE, ADD, CMP and SUB
parseMACS(tokens) ==
    IF TooShort(Len(tokens), 3) THEN Raise("ArgumentError")
    ELSE IF NotComma(tokens[2]) THEN Raise("InstructionError")
    ELSE IF ~IsRegister(tokens[1]) THEN Raise("ArgumentError")
    ELSE IF ~IsRegister(tokens[3]) THEN Raise("ArgumentError")
    ELSE Code(_register_values[tokens[1]] \o _register_values[tokens[3]] \o Zero8)

\* parseLOADI, and parseSAI for ADDI and SUBI, which has the same body
parseSAI(tokens) ==
    IF TooShort(Len(tokens), 3) THEN Raise("ArgumentError")
    ELSE IF NotComma(tokens[2]) THEN Raise("InstructionError")
    ELSE IF ~IsRegister(tokens[1]) THEN Raise("ArgumentError")
    ELSE LET Operands(immediate) ==
                 IF immediate.err # NoError THEN Raise(immediate.err)
                 ELSE Code(_register_values[tokens[1]] \o F00 \o immediate.code)
         IN  Operands(integerToBinaryOfToken(tokens[3]))

parseLOADP(tokens, variables) ==
    LET Operands(results) ==
            IF TooShort(Len(tokens), 5) THEN Raise("ArgumentError")
            ELSE IF NotComma(tokens[2]) THEN Raise("InstructionError")
            ELSE IF ~IsRegister(tokens[1]) THEN Raise("ArgumentError")
            ELSE IF results.err # NoError THEN Raise(results.err)
            ELSE Code(_register_values[tokens[1]] \o F00 \o results.data_address)
    IN  Operands(interpretBracket(SliceFrom(tokens, 2), variables,
                                  <<"{">>, <<"}">>, FALSE, FALSE))

parseLOAD(tokens, variables) ==
    LET Operands(results) ==
            IF TooShort(Len(tokens), 5) THEN Raise("ArgumentError")
            ELSE IF NotComma(tokens[2]) THEN Raise("InstructionError")
            ELSE IF ~IsRegister(tokens[1]) THEN Raise("ArgumentError")
            ELSE IF results.err # NoError THEN Raise(results.err)
            ELSE Code(_register_values[tokens[1]] \o F00 \o results.data_address)
    IN  Operands(interpretBracket(SliceFrom(tokens, 2), variables,
                                  <<"[">>, <<"]">>, FALSE, TRUE))

parseLOADF(tokens, variables) ==
    LET Operands(results) ==
            IF TooShort(Len(tokens), 7) THEN Raise("ArgumentError")
            ELSE IF NotComma(tokens[2]) THEN Raise("InstructionError")
            ELSE IF ~IsRegister(tokens[1]) THEN Raise("ArgumentError")
            ELSE IF results.err # NoError THEN Raise(results.err)
            ELSE Code(_register_values[tokens[1]] \o results.register_value
                      \o results.data_address)
    IN  Operands(interpretBracket(SliceFrom(tokens, 2), variables,
                                  <<"[">>, <<"]">>, TRUE, FALSE))

\* A fault the place of the stored register excludes: the offset in the
\* bracket is not counted.
RegisterIndexWithoutOffset(required_length, offset) == required_length

\* Lines 609 and 625: tokens[4 + offset] and tokens[6 + offset] of the
\* program, the last token of the required ones moved by the offset
RegisterIndex(required_length, offset) == required_length + offset

\* parseSTORE (required 5, register at tokens[4 + offset], no index register)
\* and parseSTOREF (required 7, register at tokens[6 + offset])
parseSTOREs(tokens, variables, required_length, is_there_register) ==
    LET Operands(comma_index, results) ==
            LET offset == IF results.was_address_offset THEN 2 ELSE 0
                register == RegisterIndex(required_length, offset)
            IN  IF TooShort(Len(tokens), required_length) THEN Raise("ArgumentError")
            ELSE IF comma_index = -1 THEN Raise("PyValueError")
            ELSE IF NotComma(tokens[comma_index + 1]) THEN Raise("InstructionError")
            ELSE IF results.err # NoError THEN Raise(results.err)
            ELSE IF Len(tokens) < register THEN Raise("PyIndexError")
            ELSE IF ~IsRegister(tokens[register]) THEN Raise("ArgumentError")
            ELSE Code(_register_values[tokens[register]]
                      \o (IF is_there_register THEN results.register_value ELSE F00)
                      \o results.data_address)
        Bracket(comma_index) ==
            Operands(comma_index,
                     interpretBracket(SliceTo(tokens, comma_index), variables,
                                      <<"[">>, <<"]">>, is_there_register, TRUE))
    IN  Bracket(Find(tokens, <<<<",">>>>))

\* parseSHIFT: field is 00_ for SHIFTL and 01_ for SHIFTR
parseSHIFT(tokens, field) ==
    IF TooShort(Len(tokens), 1) THEN Raise("ArgumentError")
    ELSE IF ~IsRegister(tokens[1]) THEN Raise("ArgumentError")
    ELSE Code(_register_values[tokens[1]] \o field \o Zero8)

\* A fault the relative branch law excludes: the displacement is taken from
\* the branch itself, not from the instruction after it.
JumpDisplacementFromBranch(branch, line_number) == branch - line_number

\* Line 701: the displacement of a jump at line_number to index branch
JumpDisplacement(branch, line_number) == branch - (line_number + 1)

\* A fault the check of the target excludes: a label that is not declared
\* is taken to be the first instruction.
calculateJumpUnchecked(jump_token, line_number, branch_destinations) ==
    IF Len(jump_token) # 1 THEN Raise("ArgumentError")
    ELSE Code(integerToBinary(
                  JumpDisplacement(IF jump_token[1] \in DOMAIN branch_destinations
                                   THEN branch_destinations[jump_token[1]] ELSE 0,
                                   line_number)))

calculateJump(jump_token, line_number, branch_destinations) ==
    IF TooShort(Len(jump_token), 1) THEN Raise("ArgumentError")
    ELSE IF Len(jump_token) # 1 THEN Raise("ArgumentError")
    ELSE IF jump_token[1] \notin DOMAIN branch_destinations
         THEN Raise("InstructionError")
    ELSE Code(integerToBinary(
                  JumpDisplacement(branch_destinations[jump_token[1]], line_number)))

\* parseJUMP, parseBRE, parseBRNE, parseBRG, parseBRGE: field is the second
\* field of the word
parseBranch(tokens, line_number, branch_destinations, field) ==
    LET Operands(jump) ==
            IF jump.err # NoError THEN jump ELSE Code(F00 \o field \o jump.code)
    IN  Operands(calculateJump(tokens, line_number, branch_destinations))

\* _instruction_switch[opcode](tokens, line_number)
_instruction_switch(opcode, tokens, line_number, variables, branch_destinations) ==
    CASE opcode = NOOP -> parseNOOP(tokens)
      [] opcode = INPUTC -> parseINPUT(tokens, variables, F00)
      [] opcode = INPUTCF -> parseINPUTF(tokens, variables, F01)
      [] opcode = INPUTD -> parseINPUT(tokens, variables, F10)
      [] opcode = INPUTDF -> parseINPUTF(tokens, variables, F11)
      [] opcode \in {MOVE, ADD, SUB, CMP} -> parseMACS(tokens)
      [] opcode \in {LOADI, ADDI, SUBI} -> parseSAI(tokens)
      [] opcode = LOADP -> parseLOADP(tokens, variables)
      [] opcode = LOAD -> parseLOAD(tokens, variables)
      [] opcode = LOADF -> parseLOADF(tokens, variables)
      [] opcode = STORE -> parseSTOREs(tokens, variables, 5, FALSE)
      [] opcode = STOREF -> parseSTOREs(tokens, variables, 7, TRUE)
      [] opcode = SHIFTL -> parseSHIFT(tokens, F00)
      [] opcode = SHIFTR -> parseSHIFT(tokens, F01)
      [] opcode \in {JUMP, BRE, BRZ} ->
             parseBranch(tokens, line_number, branch_destinations, F00)
      [] opcode \in {BRNE, BRNZ} ->
             parseBranch(tokens, line_number, branch_destinations, F01)
      [] opcode = BRG -> parseBranch(tokens, line_number, branch_destinations, F10)
      [] opcode = BRGE -> parseBranch(tokens, line_number, branch_destinations, F11)

----------------------------------------------------------------------------
(* parseCode                                                               *)

\* Lines 339-348 for one line: the machine instruction or the error
Instruction(line, line_number, variables, branch_destinations) ==
    Only({IF Len(tokens) < 1 THEN Raise("PyIndexError")
          ELSE IF tokens[1] \notin DOMAIN _instruction_dictionary THEN Raise("PyKeyError")
          ELSE Only({IF operands.err # NoError THEN operands
                     ELSE Code(_instruction_dictionary[tokens[1]] \o operands.code) :
                     operands \in {_instruction_switch(tokens[1], Tail(tokens),
                                       line_number, variables, branch_destinations)}}) :
          tokens \in {splitLine(line, <<>>)}})

\* Lines 338-353 for one line: machine_code gains one line per instruction.
CodeLine(st, line, line_number, variables, branch_destinations) ==
    Only({IF ins.err # NoError THEN [st EXCEPT !.err = ins.err]
          ELSE [st EXCEPT !.machine_code = @ \o ins.code \o <<"\n">>] :
          ins \in {Instruction(line, line_number, variables, branch_destinations)}})

\* The loop of lines 338-353 over code_lines[lo..hi].
RECURSIVE CodeLoop(_, _, _, _, _, _)
CodeLoop(code_lines, lo, hi, variables, branch_destinations, st) ==
    IF lo > hi \/ st.err # NoError THEN st
    ELSE IF lo = hi
         THEN CodeLine(st, code_lines[lo], lo - 1, variables, branch_destinations)
    ELSE Only({CodeLoop(code_lines, (lo + hi) \div 2 + 1, hi,
                        variables, branch_destinations, first) :
               first \in {CodeLoop(code_lines, lo, (lo + hi) \div 2,
                                   variables, branch_destinations, st)}})

parseCode(code_lines, variables, branch_destinations) ==
    Only({IF st.err # NoError THEN st
          ELSE [st EXCEPT !.machine_code = SubSeq(@, 1, Len(@) - 1)] :
          st \in {CodeLoop(code_lines, 1, Len(code_lines), variables,
                           branch_destinations,
                           [err |-> NoError, machine_code |-> <<>>])}})

----------------------------------------------------------------------------
(* writeVerilogFiles.  A module file is modelled by the values it assigns, *)
(* in the order written: entry k + 1 is the value of `assign b<k>I`.       *)

ModuleSlots == 16

ZeroWord == <<"0", "0", "0", "0", "_">> \o F00 \o F00 \o Zero8

\* Lines 820-823: how many words a code module takes from machine_code
WordsTaken(code_length, line_number) ==
    IF code_length - line_number < ModuleSlots
    THEN (IF code_length - line_number < 0 THEN 0 ELSE code_length - line_number)
    ELSE ModuleSlots

\* A fault the two code banks exclude: every module starts at the first word.
LineAfterModuleReset(line_number, taken) == 0

\* line_number is a variable of the function, not of the loop over the
\* modules (line 803): a module starts where the one before it stopped.
LineAfterModule(line_number, taken) == line_number + taken

\* Lines 816-823 and 843-845 for a code module that starts at line_number
CodeModule(code, line_number) ==
    [k \in 1..ModuleSlots |->
        IF k <= WordsTaken(Len(code), line_number) THEN code[line_number + k]
        ELSE ZeroWord]

\* Lines 828-838: the bytes one symbol contributes, or the error of int()
ElementBytes(values) ==
    Only({[err |-> IF bad = {} THEN NoError ELSE "PyValueError",
           bytes |-> [i \in 1..(IF bad = {} THEN Len(values)
                                ELSE (CHOOSE i \in bad : \A j \in bad : i <= j) - 1)
                         |-> integerToBinaryOfToken(values[i]).code]] :
          bad \in {{i \in 1..Len(values) :
                       integerToBinaryOfToken(values[i]).err # NoError}}})

VariableBytes(entry) ==
    IF entry.is_list THEN ElementBytes(entry.values)
    ELSE [err |-> NoError, bytes |-> <<integerToBinary(entry.value)>>]

\* The loop of lines 827-838 over the symbols variables[lo..hi]
RECURSIVE DataLoop(_, _, _, _)
DataLoop(variables, lo, hi, st) ==
    IF lo > hi \/ st.err # NoError THEN st
    ELSE IF lo = hi
         THEN Only({[err |-> b.err, bytes |-> st.bytes \o b.bytes] :
                    b \in {VariableBytes(variables[lo])}})
    ELSE Only({DataLoop(variables, (lo + hi) \div 2 + 1, hi, first) :
               first \in {DataLoop(variables, lo, (lo + hi) \div 2, st)}})

\* Lines 843-845: the fill of a module up to its sixteen slots
Fill(slots, fill_string) ==
    slots \o [k \in 1..(IF Len(slots) < ModuleSlots THEN ModuleSlots - Len(slots) ELSE 0)
                 |-> fill_string]

writeVerilogFiles(code_text, variables) ==
    Only({[err |-> data.err,
           User_Code_Low |-> CodeModule(code, 0),
           User_Code_High |->
               CodeModule(code, LineAfterModule(0, WordsTaken(Len(code), 0))),
           User_Data |-> IF data.err # NoError THEN data.bytes
                         ELSE Fill(data.bytes, Zero8)] :
          code \in {Split(code_text, "\n")},
          data \in {DataLoop(variables, 1, Len(variables),
                             [err |-> NoError, bytes |-> <<>>])}})

----------------------------------------------------------------------------
(* The source files given to the assembler.  A file is [path, lines]:      *)
(* lines is its text split at the newlines (line 960), and path names the  *)
(* file by the family of programs it belongs to and its parameters.        *)

MaxCodeLines == 33

MaxScalars == 17

MaxArray == 17

MaxDecls == 2

MaxBranchProgram == 4

MaxOffset == 65

MaxImmediate == 255

MaxNegated == 128

MaxFiles == 2

MaxOperands == 7

SP == <<" ">>

COMMA == <<",">>

DigitChar(d) ==
    CASE d = 0 -> "0" [] d = 1 -> "1" [] d = 2 -> "2" [] d = 3 -> "3"
      [] d = 4 -> "4" [] d = 5 -> "5" [] d = 6 -> "6" [] d = 7 -> "7"
      [] d = 8 -> "8" [] d = 9 -> "9"

\* the decimal text of n >= 0
RECURSIVE Dec(_)
Dec(n) == IF n < 10 THEN <<DigitChar(n)>> ELSE Dec(n \div 10) \o <<DigitChar(n % 10)>>

\* the text of an integer literal as a programmer writes it
Literal(k) == IF k < 0 THEN <<"-">> \o Dec(0 - k) ELSE Dec(k)

\* the texts joined by sep
RECURSIVE Join(_, _)
Join(list, sep) ==
    IF list = <<>> THEN <<>>
    ELSE IF Len(list) = 1 THEN list[1]
    ELSE Join(SubSeq(list, 1, Len(list) \div 2), sep) \o sep
         \o Join(SubSeq(list, Len(list) \div 2 + 1, Len(list)), sep)

SeqsUpTo(S, n) == UNION {[1..k -> S] : k \in 0..n}

NameOf(i) == <<"v">> \o Dec(i)

\* name BYTE value
Decl(name, value) == name \o SP \o BYTE \o SP \o value

\* X at 0, V at 1..3, P at 4..63, Q at 64
FixedData ==
    <<DotData, Decl(<<"X">>, <<"1">>), Decl(<<"V">>, <<"1", ",", "2", ",", "3">>),
      Decl(<<"P">>, Join([i \in 1..60 |-> <<"0">>], COMMA)),
      Decl(<<"Q">>, <<"9">>), DotCode>>

\* <<"length", n, c>>: n instructions after .code; when c = 1 the file also
\* has comments, tabs, a blank last line and a .data section
LengthLines(n, c) ==
    IF c = 1
    THEN <<<<";", " ", "p">>, DotData, Decl(<<"X">>, <<"1">>), DotCode>>
         \o [i \in 1..n |-> <<"\t">> \o NOOP \o <<" ", ";", "c">>] \o <<<<>>>>
    ELSE <<DotCode>> \o [i \in 1..n |-> NOOP]

\* <<"alloc", m, n>>: m scalars with distinct names, then n values under one name
AllocLines(m, n) ==
    <<DotData>> \o [i \in 1..m |-> Decl(NameOf(i), Dec(i))]
    \o (IF n > 0 THEN <<Decl(<<"W">>, Join([j \in 1..n |-> Dec(j)], COMMA))>> ELSE <<>>)
    \o <<DotCode, NOOP>>

DeclNames == <<<<"X">>, <<"Y">>>>

DeclValues ==
    <<<<"5">>, <<"?">>, <<"1", ",", "2", ",", "3">>,
      <<"1", ",", " ", "?", ",", " ", "3">>, <<"?", ",", "2">>, <<"1", ",", "?">>>>

DeclChoices == (1..Len(DeclNames)) \X (1..Len(DeclValues))

\* <<"decl", ds>>: the declarations ds[i] = <<name, value>>, in this order
DeclLines(ds) ==
    <<DotData>> \o [i \in 1..Len(ds) |-> Decl(DeclNames[ds[i][1]], DeclValues[ds[i][2]])]
    \o <<DotCode, NOOP>>

Jumps == <<JUMP, BRE, BRZ, BRNE, BRNZ, BRG, BRGE>>

Targets == <<<<"L">>, <<"M">>>>

\* <<"branch", n, a, b, op, t>>: n lines of NOOP, but line a declares the
\* label L and line b holds the branch Jumps[op] to Targets[t]
BranchLines(n, a, b, op, t) ==
    <<DotCode>> \o
    [i \in 1..n |-> (IF i = a THEN <<"L", ":", " ">> ELSE <<>>)
                    \o (IF i = b THEN Jumps[op] \o SP \o Targets[t] ELSE NOOP)]

AddrNames == <<<<"X">>, <<"V">>, <<"Q">>>>

AddrOffsets == (0..2) \cup ((MaxOffset - 4)..MaxOffset)

Operators == <<<<"+">>, <<"-">>>>

\* the closing token: the matching bracket, the bracket of the other form,
\* or a word
Closer(open, c) ==
    CASE c = 1 -> IF open = <<"[">> THEN <<"]">> ELSE <<"}">>
      [] c = 2 -> IF open = <<"[">> THEN <<"}">> ELSE <<"]">>
      [] c = 3 -> <<" ", "Q">>

\* open name (+B)? (op k)? close
Bracket(open, v, with_register, op, k, c) ==
    open \o AddrNames[v] \o (IF with_register THEN <<"+", "B">> ELSE <<>>)
    \o (IF op = 0 THEN <<>> ELSE Operators[op] \o Dec(k)) \o Closer(open, c)

AddrMnemonics == <<INPUTC, INPUTD, INPUTCF, INPUTDF, LOAD, STORE, STOREF, LOADP, LOADF>>

\* <<"addr", m, v, op, k, c>>: one instruction of mnemonic AddrMnemonics[m]
\* whose bracket names AddrNames[v], adjusted by Operators[op] k when op > 0
AddrLine(m, v, op, k, c) ==
    CASE m \in {1, 2} -> AddrMnemonics[m] \o SP \o Bracket(<<"[">>, v, FALSE, op, k, c)
      [] m \in {3, 4} -> AddrMnemonics[m] \o SP \o Bracket(<<"[">>, v, TRUE, op, k, c)
      [] m = 5 -> LOAD \o <<" ", "A", ",">> \o Bracket(<<"[">>, v, FALSE, op, k, c)
      [] m = 6 -> STORE \o SP \o Bracket(<<"[">>, v, FALSE, op, k, c) \o <<",", "C">>
      [] m = 7 -> STOREF \o SP \o Bracket(<<"[">>, v, TRUE, op, k, c) \o <<",", "C">>
      [] m = 8 -> LOADP \o <<" ", "A", ",">> \o Bracket(<<"{">>, v, FALSE, op, k, c)
      [] m = 9 -> LOADF \o <<" ", "A", ",">> \o Bracket(<<"[">>, v, TRUE, op, k, c)

ImmMnemonics == <<LOADI, ADDI, SUBI>>

ImmRegisters == <<<<"A">>, <<"D">>>>

\* <<"imm", m, r, k>>: ImmMnemonics[m] ImmRegisters[r], k
ImmLine(m, r, k) == ImmMnemonics[m] \o SP \o ImmRegisters[r] \o <<",", " ">> \o Literal(k)

MiscLines ==
    <<NOOP, MOVE \o <<" ", "A", ",", "B">>, ADD \o <<" ", "B", ",", " ", "C">>,
      SUB \o <<" ", "D", " ", ",", "A">>, CMP \o <<" ", "C", ",", "D">>,
      SHIFTL \o <<" ", "A">>, SHIFTR \o <<" ", "D">>, NOOP \o <<" ", "A">>,
      MOVE \o <<" ", "A", " ", "B">>, ADD \o <<" ", "A", ",", "E">>,
      SHIFTL, <<"H", "A", "L", "T">>, <<"L", ":">>, JUMP,
      LOAD \o <<" ", "A", ",", "[", "Z", "]">>>>

\* <<"below", k>>: LOADP A, {X-k}; X is at address 0, so the pointer is -k
BelowLine(k) == LOADP \o <<" ", "A", ",", "{", "X", "-">> \o Dec(k) \o <<"}">>

\* <<"labels", a, b>>: a comment, MaxBranchProgram lines of NOOP, of which
\* lines a and b declare the label L, a blank line, and then JUMP L
LabelsLines(a, b) ==
    <<DotCode, <<";", " ", "c">>>> \o
    [i \in 1..MaxBranchProgram |->
        (IF i \in {a, b} THEN <<"L", ":", " ">> ELSE <<>>) \o NOOP]
    \o <<<<>>, JUMP \o <<" ", "L">>>>

Registers == <<"A", "B", "C", "D">>

\* <<"store", f, rs, ri, op, k>>: STORE [V (op k)?], Rs when f = 1 and
\* STOREF [V + Ri (op k)?], Rs when f = 2; V is at address 1
StoreLine(f, rs, ri, op, k) ==
    (IF f = 1 THEN STORE ELSE STOREF) \o <<" ", "[", "V">>
    \o (IF f = 1 THEN <<>> ELSE <<"+", Registers[ri]>>)
    \o (IF op = 0 THEN <<>> ELSE Operators[op] \o Dec(k)) \o <<"]", ",", Registers[rs]>>

\* the operand tokens of a well-formed instruction of each mnemonic
OperandForms ==
    <<<<NOOP, <<>>>>,
      <<INPUTC, <<"[", "X", "]">>>>, <<INPUTCF, <<"[", "X", "+", "B", "]">>>>,
      <<INPUTD, <<"[", "X", "]">>>>, <<INPUTDF, <<"[", "X", "+", "B", "]">>>>,
      <<MOVE, <<"A", ",", "B">>>>, <<ADD, <<"B", ",", "C">>>>,
      <<SUB, <<"C", ",", "D">>>>, <<CMP, <<"D", ",", "A">>>>,
      <<LOADI, <<"A", ",", "5">>>>, <<ADDI, <<"B", ",", "6">>>>,
      <<SUBI, <<"C", ",", "7">>>>,
      <<LOAD, <<"A", ",", "[", "X", "]">>>>, <<LOADP, <<"B", ",", "{", "X", "}">>>>,
      <<LOADF, <<"C", ",", "[", "X", "+", "B", "]">>>>,
      <<STORE, <<"[", "X", "]", ",", "D">>>>,
      <<STOREF, <<"[", "X", "+", "B", "]", ",", "A">>>>,
      <<SHIFTL, <<"A">>>>, <<SHIFTR, <<"B">>>>,
      <<JUMP, <<"L">>>>, <<BRE, <<"L">>>>, <<BRZ, <<"L">>>>, <<BRNE, <<"L">>>>,
      <<BRNZ, <<"L">>>>, <<BRG, <<"L">>>>, <<BRGE, <<"L">>>>>>

\* what is written where the comma belongs
Separators == <<",", "+", "x">>

\* <<"form", m, k, s>>: after the line `L: NOOP`, the mnemonic of
\* OperandForms[m] with the first k of its operand tokens, Separators[s]
\* standing where the form has its comma
FormLine(m, k, s) ==
    OperandForms[m][1] \o
    Join([i \in 1..k |-> <<" ", IF OperandForms[m][2][i] = ","
                                THEN Separators[s] ELSE OperandForms[m][2][i]>>], <<>>)

\* the comma of the form is among its first k tokens
HasComma(m, k) == \E i \in 1..k : OperandForms[m][2][i] = ","

\* <<"mixed", i>>: programs that declare, use and miss labels and variables
MixedPrograms ==
    <<<<DotData, Decl(<<"X">>, <<"5">>), DotCode,
        <<"L", ":", " ">> \o LOAD \o <<" ", "A", ",", "[", "X", "]">>,
        JUMP \o <<" ", "L">>>>,
      <<DotCode, JUMP \o <<" ", "L">>, NOOP>>,
      <<DotCode, LOAD \o <<" ", "B", ",", "[", "X", "]">>>>,
      <<DotData, Decl(<<"Y">>, <<"2">>), Decl(<<"X">>, <<"3">>), DotCode,
        STORE \o <<" ", "[", "X", "]", ",", "D">>, <<"L", ":", " ">> \o NOOP>>,
      <<DotData>> \o [i \in 1..16 |-> Decl(NameOf(i), Dec(i))] \o <<DotCode, NOOP>>,
      <<DotData, Decl(<<"X">>, <<"5">>), NOOP>>,
      <<DotCode, NOOP>>,
      <<DotData, Decl(<<"X">>, <<"5">>), DotCode, <<"L", ":", " ">> \o NOOP,
        LOAD \o <<" ", "A", ",", "[", "Z", "]">>>>,
      <<DotData, <<"X", " ">> \o BYTE, DotCode, NOOP>>,
      <<DotData, Decl(<<"X">>, <<"?", ",", "2">>), DotCode, NOOP>>>>

LinesOf(path) ==
    CASE path[1] = "length" -> LengthLines(path[2], path[3])
      [] path[1] = "alloc" -> AllocLines(path[2], path[3])
      [] path[1] = "decl" -> DeclLines(path[2])
      [] path[1] = "branch" -> BranchLines(path[2], path[3], path[4], path[5], path[6])
      [] path[1] = "addr" ->
             FixedData \o <<AddrLine(path[2], path[3], path[4], path[5], path[6])>>
      [] path[1] = "imm" -> FixedData \o <<ImmLine(path[2], path[3], path[4])>>
      [] path[1] = "misc" -> FixedData \o <<MiscLines[path[2]]>>
      [] path[1] = "below" -> FixedData \o <<BelowLine(path[2])>>
      [] path[1] = "labels" -> LabelsLines(path[2], path[3])
      [] path[1] = "store" ->
             FixedData \o <<StoreLine(path[2], path[3], path[4], path[5], path[6])>>
      [] path[1] = "form" ->
             FixedData \o <<<<"L", ":", " ">> \o NOOP,
                            FormLine(path[2], path[3], path[4])>>
      [] path[1] = "mixed" -> MixedPrograms[path[2]]

File(path) == [path |-> path, lines |-> LinesOf(path)]

LengthPaths == {<<"length", n, c>> : n \in 0..MaxCodeLines, c \in 0..1}

AllocPaths == {<<"alloc", m, n>> : m \in 0..MaxScalars, n \in 0..MaxArray}

DeclPaths == {<<"decl", ds>> : ds \in SeqsUpTo(DeclChoices, MaxDecls)}

BranchPaths ==
    {<<"branch", n, a, b, op, t>> :
        n \in 1..MaxBranchProgram, a \in 1..MaxBranchProgram,
        b \in 1..MaxBranchProgram, op \in 1..Len(Jumps), t \in 1..Len(Targets)}
    \cup {<<"branch", _MAX_CODE_LENGTH - 1, a, b, op, 1>> :
        a \in {1, _MAX_CODE_LENGTH - 1}, b \in {1, _MAX_CODE_LENGTH - 1},
        op \in 1..Len(Jumps)}

AddrPaths ==
    {<<"addr", m, v, op, k, c>> :
        m \in 1..Len(AddrMnemonics), v \in 1..Len(AddrNames), op \in 0..2,
        k \in AddrOffsets, c \in 1..3}

ImmPaths ==
    {<<"imm", m, r, k>> :
        m \in 1..Len(ImmMnemonics), r \in 1..Len(ImmRegisters),
        k \in (0 - MaxNegated)..MaxImmediate}

MiscPaths == {<<"misc", i>> : i \in 1..Len(MiscLines)}

MixedPaths == {<<"mixed", i>> : i \in 1..Len(MixedPrograms)}

\* an invocation on one file of any family
SingleInputs ==
    {<<File(p)>> : p \in {q \in BranchPaths : q[3] <= q[2] /\ q[4] <= q[2]}
                         \cup {q \in AddrPaths : q[4] > 0 \/ q[5] = 0}
                         \cup LengthPaths \cup AllocPaths \cup DeclPaths
                         \cup ImmPaths \cup MiscPaths
                         \cup {<<"below", k>> : k \in 1..MaxNegated}
                         \cup {<<"labels", a, b>> :
                                  a \in 1..MaxBranchProgram, b \in 1..MaxBranchProgram}
                         \cup {q \in {"store"} \X (1..2) \X (1..Len(Registers))
                                        \X (1..Len(Registers)) \X (0..2) \X (0..1) :
                                  /\ q[5] > 0 \/ q[6] = 0
                                  /\ q[2] = 2 \/ q[4] = 1}
                         \cup {q \in {"form"} \X (1..Len(OperandForms))
                                        \X (0..MaxOperands) \X (1..Len(Separators)) :
                                  /\ q[3] <= Len(OperandForms[q[2]][2])
                                  /\ q[4] = 1 \/ HasComma(q[2], q[3])}}

\* an invocation on several files
MixedInputs ==
    {[i \in 1..Len(ps) |-> File(ps[i])] : ps \in SeqsUpTo(MixedPaths, MaxFiles)}

----------------------------------------------------------------------------
(* main: the loop of lines 948-1014 over the files to compile.             *)

\* file_lines[from:to] for non-negative bounds
Slice(s, from, to) == SubSeq(s, from + 1, IF to < Len(s) THEN to ELSE Len(s))

\* A fault the independence of the files excludes: a table is kept from the
\* file before.
KeptTable(old) == old

\* Lines 949-950: the tables a file starts with
FreshTable(old) == EmptyDict

\* Lines 981-1003 as one function of the text of a file: what the passes
\* make of lines when they start from empty tables
Assemble(lines) ==
    LET a == analyzeFile(lines)
        j == findJumpLabels(a.new_lines, a.code_line_number, EmptyDict)
        v == assignVariables(Slice(j.new_lines, a.data_line_number + 1,
                                   a.code_line_number), EmptyDict)
        c == parseCode(SliceFrom(j.new_lines, a.code_line_number + 1),
                       v.variables, j.branch_destinations)
        w == writeVerilogFiles(c.machine_code, v.variables)
        none == [err |-> NoError, machine_code |-> <<>>, variables |-> <<>>,
                 User_Code_Low |-> <<>>, User_Code_High |-> <<>>, User_Data |-> <<>>]
    IN  IF a.err # NoError THEN [none EXCEPT !.err = a.err]
        ELSE IF j.err # NoError THEN [none EXCEPT !.err = j.err]
        ELSE IF v.err # NoError THEN [none EXCEPT !.err = v.err]
        ELSE IF c.err # NoError THEN [none EXCEPT !.err = c.err]
        ELSE [err |-> w.err, machine_code |-> c.machine_code,
              variables |-> v.variables, User_Code_Low |-> w.User_Code_Low,
              User_Code_High |-> w.User_Code_High, User_Data |-> w.User_Data]

Current == arguments_input[file_index]

\* A fault the order of the passes excludes: the variables are assigned
\* before the labels are looked for.
AfterWithPassesSwapped(pass) ==
    CASE pass = "analyzeFile" -> "assignVariables"
      [] pass = "assignVariables" -> "findJumpLabels"
      [] pass = "findJumpLabels" -> "parseCode"
      [] pass = "parseCode" -> "writeVerilogFiles"
      [] pass = "writeVerilogFiles" -> "next"

\* Lines 981-1007: the statement that follows a pass that returned
After(pass) ==
    CASE pass = "analyzeFile" -> "findJumpLabels"
      [] pass = "findJumpLabels" -> "assignVariables"
      [] pass = "assignVariables" -> "parseCode"
      [] pass = "parseCode" -> "writeVerilogFiles"
      [] pass = "writeVerilogFiles" -> "next"

\* A fault the isolation of failures excludes: the first failure ends the
\* run.
FailAndStop(kind) ==
    /\ failed' = DictPut(failed, Current.path, kind)
    /\ pc' = "done"

\* Line 1010: the failure is recorded and the loop goes on
Fail(kind) ==
    /\ failed' = DictPut(failed, Current.path, kind)
    /\ pc' = "next"

Init ==
    /\ arguments_input \in SingleInputs \cup MixedInputs
    /\ file_index = 0
    /\ pc = "next"
    /\ file_lines = <<>>
    /\ data_line_number = -1
    /\ code_line_number = -1
    /\ _variables = EmptyDict
    /\ _branch_destinations = EmptyDict
    /\ machine_code = <<>>
    /\ output = EmptyDict
    /\ failed = EmptyDict
    /\ succeeded = EmptyDict

\* Lines 948-960: the tables are reset and the file is read
OpenFile ==
    /\ pc = "next"
    /\ file_index < Len(arguments_input)
    /\ file_index' = file_index + 1
    /\ _branch_destinations' = FreshTable(_branch_destinations)
    /\ _variables' = FreshTable(_variables)
    /\ file_lines' = arguments_input[file_index + 1].lines
    /\ pc' = "analyzeFile"
    /\ UNCHANGED <<arguments_input, data_line_number, code_line_number,
                   machine_code, output, failed, succeeded>>

\* Line 981
AnalyzeFile ==
    /\ pc = "analyzeFile"
    /\ \E r \in {analyzeFile(file_lines)} :
           IF r.err # NoError
           THEN /\ Fail(r.err)
                /\ UNCHANGED <<file_lines, data_line_number, code_line_number>>
           ELSE /\ file_lines' = r.new_lines
                /\ data_line_number' = r.data_line_number
                /\ code_line_number' = r.code_line_number
                /\ pc' = After("analyzeFile")
                /\ UNCHANGED failed
    /\ UNCHANGED <<arguments_input, file_index, _variables, _branch_destinations,
                   machine_code, output, succeeded>>

\* Line 985
FindJumpLabels ==
    /\ pc = "findJumpLabels"
    /\ \E r \in {findJumpLabels(file_lines, code_line_number, _branch_destinations)} :
           /\ _branch_destinations' = r.branch_destinations
           /\ IF r.err # NoError
              THEN Fail(r.err) /\ UNCHANGED file_lines
              ELSE /\ file_lines' = r.new_lines
                   /\ pc' = After("findJumpLabels")
                   /\ UNCHANGED failed
    /\ UNCHANGED <<arguments_input, file_index, data_line_number, code_line_number,
                   _variables, machine_code, output, succeeded>>

\* Line 988
AssignVariables ==
    /\ pc = "assignVariables"
    /\ \E r \in {assignVariables(Slice(file_lines, data_line_number + 1,
                                        code_line_number), _variables)} :
           /\ _variables' = r.variables
           /\ IF r.err # NoError
              THEN Fail(r.err)
              ELSE pc' = After("assignVariables") /\ UNCHANGED failed
    /\ UNCHANGED <<arguments_input, file_index, file_lines, data_line_number,
                   code_line_number, _branch_destinations, machine_code, output,
                   succeeded>>

\* Line 991
ParseCode ==
    /\ pc = "parseCode"
    /\ \E r \in {parseCode(SliceFrom(file_lines, code_line_number + 1),
                           _variables, _branch_destinations)} :
           IF r.err # NoError
           THEN Fail(r.err) /\ UNCHANGED machine_code
           ELSE /\ machine_code' = r.machine_code
                /\ pc' = After("parseCode")
                /\ UNCHANGED failed
    /\ UNCHANGED <<arguments_input, file_index, file_lines, data_line_number,
                   code_line_number, _variables, _branch_destinations, output,
                   succeeded>>

\* Lines 1003-1007: the module files are written, and the file has succeeded
\* unless writing them raised
WriteVerilogFiles ==
    /\ pc = "writeVerilogFiles"
    /\ \E r \in {writeVerilogFiles(machine_code, _variables)} :
           /\ output' = DictPut(output, Current.path,
                                [User_Code_Low |-> r.User_Code_Low,
                                 User_Code_High |-> r.User_Code_High,
                                 User_Data |-> r.User_Data])
           /\ IF r.err # NoError
              THEN Fail(r.err) /\ UNCHANGED succeeded
              ELSE /\ succeeded' = DictPut(succeeded, Current.path, TRUE)
                   /\ pc' = After("writeVerilogFiles")
                   /\ UNCHANGED failed
    /\ UNCHANGED <<arguments_input, file_index, file_lines, data_line_number,
                   code_line_number, _variables, _branch_destinations, machine_code>>

\* Line 1023: every file has been processed
Report ==
    /\ pc = "next"
    /\ file_index = Len(arguments_input)
    /\ pc' = "done"
    /\ UNCHANGED <<arguments_input, file_index, file_lines, data_line_number,
                   code_line_number, _variables, _branch_destinations, machine_code,
                   output, failed, succeeded>>

Next ==
    \/ OpenFile
    \/ AnalyzeFile
    \/ FindJumpLabels
    \/ AssignVariables
    \/ ParseCode
    \/ WriteVerilogFiles
    \/ Report

Spec == Init /\ [][Next]_vars

\* an invocation on several files
InitSeveral == arguments_input \in MixedInputs /\ Init

\* main is one sequential loop: a step that can be taken is taken
FairSpec == InitSeveral /\ [][Next]_vars /\ WF_vars(Next)

----------------------------------------------------------------------------
(* Vocabulary of the properties.                                           *)

\* the current file has been processed to its success or failure
Settled == file_index > 0 /\ pc \in {"next", "done"}

Succeeded == Settled /\ Current.path \in DOMAIN succeeded

FailedWith(kind) ==
    Settled /\ Current.path \in DOMAIN failed /\ failed[Current.path] = kind

Family(name) == file_index > 0 /\ Current.path[1] = name

\* the words of the code image, one per line of machine_code
Words == Split(machine_code, "\n")

\* the last eight characters of a word or byte, read as an unsigned number
RECURSIVE BitsValue(_)
BitsValue(bits) ==
    IF bits = <<>> THEN 0
    ELSE 2 * BitsValue(SubSeq(bits, 1, Len(bits) - 1))
         + (IF bits[Len(bits)] = "1" THEN 1 ELSE 0)

Low8(word) == BitsValue(SubSeq(word, Len(word) - 7, Len(word)))

\* an 8-bit value read as a two's-complement integer
Signed8(value) == IF value >= 128 THEN value - 256 ELSE value

----------------------------------------------------------------------------
(* C1: the length check of analyzeFile.                                    *)

\* the cleaned lines of the current file that contain marker
MarkerLines(marker) ==
    {i \in 1..Len(Current.lines) :
        IsKept(Current.lines[i]) /\ Find(CleanLine(Current.lines[i]), marker) > -1}

\* the number of cleaned lines strictly after the .code marker
LinesAfterCode ==
    Cardinality({i \in 1..Len(Current.lines) :
                    /\ IsKept(Current.lines[i])
                    /\ \E c \in MarkerLines(DotCode) : c < i})

\* C1: a file with one .code marker and at most one .data marker fails with
\* SectionError exactly when more than 32 cleaned lines follow the .code
\* marker: 32 instruction lines pass the length check, 33 are rejected.
C1_LengthCheckAt32 ==
    (Settled /\ Cardinality(MarkerLines(DotCode)) = 1
             /\ Cardinality(MarkerLines(DotData)) <= 1)
    => (FailedWith("SectionError") <=> LinesAfterCode > 32)

----------------------------------------------------------------------------
(* C2: the bound on the allocated data bytes.                              *)

\* the byte cursor of assignVariables after the data section of the file
AllocatedBytes ==
    assignVariables(Slice(file_lines, data_line_number + 1, code_line_number),
                    EmptyDict).data_address_number

\* C2: whenever assignVariables has accepted the data section of a file, the
\* bytes it allocated (the final byte cursor) are at most 16.
C2_AllocatedBytesAtMost16 ==
    (file_index > 0 /\ pc = "parseCode") => AllocatedBytes <= 16

----------------------------------------------------------------------------
(* C3: the relative branch law.                                            *)

\* C3: in a successfully assembled program of the family "branch", whose
\* branch stands at index b - 1 and whose label L is declared at index a - 1,
\* the low 8 bits of the word of the branch, read as a signed 8-bit integer,
\* equal index(L) - (index(branch) + 1), forward and backward.
C3_RelativeBranchLaw ==
    (Succeeded /\ Family("branch"))
    => Signed8(Low8(Words[Current.path[4]]))
       = (Current.path[3] - 1) - ((Current.path[4] - 1) + 1)

\* a backward branch over the whole program has been encoded
C3_Witness ==
    /\ Succeeded /\ Family("branch")
    /\ Current.path[3] = 1 /\ Current.path[4] = _MAX_CODE_LENGTH - 1
    /\ Low8(Words[Current.path[4]]) >= 128

----------------------------------------------------------------------------
(* C4: the address bound of the non-permissive addressing modes.           *)

NonPermissive == {INPUTC, INPUTCF, INPUTD, INPUTDF, LOAD, STORE, STOREF}

\* the offsets of X, V and Q in the data section FixedData
AddrBases == <<0, 1, 64>>

\* the address an instruction of the family "addr" asks for: the offset of
\* its symbol, plus or minus its literal offset
ResolvedAddress ==
    CASE Current.path[4] = 0 -> AddrBases[Current.path[3]]
      [] Current.path[4] = 1 -> AddrBases[Current.path[3]] + Current.path[5]
      [] Current.path[4] = 2 -> AddrBases[Current.path[3]] - Current.path[5]

\* C4: for an instruction with a non-permissive addressing mode, a
\* successful assembly encodes an address in [0, 63], and a resolved address
\* that is negative or greater than 63 makes the assembly fail with
\* ValueError.
C4_AddressBound ==
    (Settled /\ Family("addr") /\ AddrMnemonics[Current.path[2]] \in NonPermissive)
    => /\ Succeeded => Low8(Words[1]) \in 0..63
       /\ (ResolvedAddress < 0 \/ ResolvedAddress > 63) => FailedWith("ValueError")

\* an address just past the bound, made of a symbol and a literal offset, has
\* been rejected
C4_Witness ==
    /\ Family("addr") /\ AddrMnemonics[Current.path[2]] \in NonPermissive
    /\ Current.path[4] = 1 /\ Current.path[6] = 1 /\ ResolvedAddress = 64
    /\ FailedWith("ValueError")

----------------------------------------------------------------------------
(* C5: the wildcard in declarations.                                       *)

\* the values the declarations DeclValues stand for, with 0 for the wildcard
DeclMeaning == <<<<5>>, <<0>>, <<1, 2, 3>>, <<1, 0, 3>>, <<0, 2>>, <<1, 0>>>>

\* C5: a file of the family "decl" with a single declaration, scalar or
\* array, with or without wildcards, is accepted, and its data image starts
\* with one byte per declared element: zero for `?`, the declared value
\* otherwise.
C5_WildcardIsZero ==
    (Settled /\ Family("decl") /\ Len(Current.path[2]) = 1)
    => /\ Succeeded
       /\ LET meaning == DeclMeaning[Current.path[2][1][2]]
          IN  \A i \in 1..Len(meaning) :
                  BitsValue(output[Current.path].User_Data[i]) = meaning[i]

----------------------------------------------------------------------------
(* C6: the two code modules.                                               *)

\* line k of the machine code text, or the zero word when there is none
LineOrZero(k) == IF k <= Len(Words) THEN Words[k] ELSE ZeroWord

\* C6 as stated: for a program of at least one instruction, User_Code_Low
\* and User_Code_High both assign slot k the k-th code word, or the zero
\* word when the program has no k-th word.
C6_SameWordsInBothModules ==
    (Succeeded /\ machine_code # <<>>)
    => \A k \in 1..ModuleSlots :
           /\ output[Current.path].User_Code_Low[k] = LineOrZero(k)
           /\ output[Current.path].User_Code_High[k] = LineOrZero(k)

\* C6 as amended: the modules are two consecutive banks of the code image.
\* Each has sixteen slots; User_Code_Low assigns slot k the k-th line of the
\* machine code text and User_Code_High the (16 + k)-th, or the zero word
\* when the text has no such line.
C6_LowAndHighBanks ==
    Succeeded
    => /\ Len(output[Current.path].User_Code_Low) = ModuleSlots
       /\ Len(output[Current.path].User_Code_High) = ModuleSlots
       /\ \A k \in 1..ModuleSlots :
              /\ output[Current.path].User_Code_Low[k] = LineOrZero(k)
              /\ output[Current.path].User_Code_High[k] = LineOrZero(ModuleSlots + k)

\* a program of more than sixteen words has been written, and User_Code_High
\* holds a word that is not the zero word
C6_Witness ==
    /\ Succeeded /\ Len(Words) > ModuleSlots
    /\ \E k \in 1..ModuleSlots : output[Current.path].User_Code_High[k] # ZeroWord

----------------------------------------------------------------------------
(* C7: negative immediates.                                                *)

\* C7: for k in [-128, -1], the line `LOADI Rd, k` (likewise ADDI, SUBI)
\* assembles to the word `opcode Rd 00 imm8(k)`, imm8(k) being k AND 0xFF.
C7_NegativeImmediate ==
    (Settled /\ Family("imm") /\ Current.path[4] \in (0 - 128)..(0 - 1))
    => /\ Succeeded
       /\ Words[1] = _instruction_dictionary[ImmMnemonics[Current.path[2]]]
                     \o _register_values[ImmRegisters[Current.path[3]]]
                     \o F00 \o integerToBinary(Current.path[4])

----------------------------------------------------------------------------
(* C8: the order of the data offsets.                                      *)

\* the name and the number of elements of declaration k of a "decl" file
DeclaredName(k) == DeclNames[Current.path[2][k][1]]

DeclaredLength(k) == Len(DeclMeaning[Current.path[2][k][2]])

\* C8: in a successfully assembled program the first declared symbol has
\* offset 0, and the symbol of each later declaration has the offset of the
\* symbol declared before it plus the length of that declaration.
C8_OffsetsFollowDeclarations ==
    (Succeeded /\ Family("decl") /\ Len(Current.path[2]) > 0)
    => /\ findDataAddress(DeclaredName(1), _variables) = 0
       /\ \A k \in 1..(Len(Current.path[2]) - 1) :
              findDataAddress(DeclaredName(k + 1), _variables)
              = findDataAddress(DeclaredName(k), _variables) + DeclaredLength(k)

----------------------------------------------------------------------------
(* C9: the closing bracket.                                                *)

\* C9: a bracketed operand whose closing token is not the matching right
\* bracket makes the assembly fail with ValueError, in every bracket form.
C9_ClosingBracketRequired ==
    (Settled /\ Family("addr") /\ Current.path[6] # 1) => FailedWith("ValueError")

----------------------------------------------------------------------------
(* C10: determinism, independently of the files processed before.          *)

\* C10: whatever files were processed before it in the invocation, a file
\* ends as its text ends when assembled from empty tables: with the same
\* failure, or with the same code image and the same module files.
C10_IndependentOfHistory ==
    Settled
    => LET fresh == Assemble(Current.lines)
       IN  IF fresh.err = NoError
           THEN /\ Succeeded /\ Current.path \notin DOMAIN failed
                /\ machine_code = fresh.machine_code
                /\ output[Current.path] =
                       [User_Code_Low |-> fresh.User_Code_Low,
                        User_Code_High |-> fresh.User_Code_High,
                        User_Data |-> fresh.User_Data]
           ELSE FailedWith(fresh.err) /\ Current.path \notin DOMAIN succeeded

\* a file that uses a label it does not declare has failed, right after a
\* file that declared this label succeeded
C10_Witness ==
    /\ file_index = 2 /\ pc = "next"
    /\ arguments_input[1].path = <<"mixed", 1>>
    /\ arguments_input[2].path = <<"mixed", 2>>
    /\ <<"mixed", 1>> \in DOMAIN succeeded
    /\ FailedWith("InstructionError")

----------------------------------------------------------------------------
(* C11: the tables at the start of a file.                                 *)

\* C11: when the analysis of a file begins, the branch table and the symbol
\* table are both empty, whatever the files before it declared and however
\* they ended.
C11_TablesEmptyAtStart ==
    pc = "analyzeFile" => _variables = EmptyDict /\ _branch_destinations = EmptyDict

\* the analysis of a second file begins after a file that declared a label
\* and a variable and then failed
C11_Witness ==
    /\ file_index = 2 /\ pc = "analyzeFile"
    /\ arguments_input[1].path = <<"mixed", 8>>
    /\ <<"mixed", 8>> \in DOMAIN failed
    /\ _variables = EmptyDict /\ _branch_destinations = EmptyDict

----------------------------------------------------------------------------
(* C12: a failure ends only the file it occurs in.                         *)

\* the current file has ended in a failure
Failed == Settled /\ Current.path \in DOMAIN failed

\* the run is over and every file of the invocation has its outcome
AllProcessed ==
    /\ pc = "done" /\ file_index = Len(arguments_input)
    /\ \A i \in 1..Len(arguments_input) :
           arguments_input[i].path \in DOMAIN failed \cup DOMAIN succeeded

\* C12: a file in which a pass raises is recorded in failed under its path
\* and is not recorded in succeeded, and from there the run goes on until
\* every file of the invocation has been processed to its own success or
\* failure.
C12_FailureIsLocal ==
    /\ [](Settled => (Failed <=> ~Succeeded))
    /\ Failed ~> AllProcessed

\* after a first file that failed, a second and different file has succeeded
C12_Witness ==
    /\ file_index = 2 /\ Succeeded
    /\ arguments_input[1].path # arguments_input[2].path
    /\ arguments_input[1].path \in DOMAIN failed

----------------------------------------------------------------------------
(* C13: the branches to a label that no line declares                      *)

\* the file holds a branch to M, and its only label is L
UnresolvedTarget == Family("branch") /\ Current.path[6] = 2

\* C13: a file with a branch or jump to a label that no line of its .code
\* section declares is never assembled: no machine code and no module file
\* is made for it, and it fails with InstructionError, whether the branch
\* has a line of its own or follows a label declaration on its line.
C13_UnresolvedTargetFails ==
    UnresolvedTarget =>
        /\ machine_code = <<>>
        /\ Current.path \notin DOMAIN output
        /\ Settled => FailedWith("InstructionError")

\* the file `L: JUMP M` has failed
C13_Witness ==
    /\ UnresolvedTarget
    /\ Current.path[3] = Current.path[4]
    /\ Jumps[Current.path[5]] = JUMP
    /\ pc = "next"
    /\ FailedWith("InstructionError")

----------------------------------------------------------------------------
(* C14: the comma of the instructions that have one                        *)

\* the file holds an instruction with the first k tokens of its form
Operands(k) == Family("form") /\ Current.path[3] = k

\* the instruction has all the tokens of its form
Complete == Family("form") /\ Current.path[3] = Len(OperandForms[Current.path[2]][2])

\* the instruction is complete, and another token stands for its comma
WrongSeparator ==
    Complete /\ HasComma(Current.path[2], Current.path[3]) /\ Current.path[4] # 1

\* C14: an instruction of MOVE, ADD, SUB, CMP, LOADI, ADDI, SUBI, LOAD, LOADP,
\* LOADF, STORE or STOREF that has all its tokens, but another token than
\* the comma where the comma belongs, fails with InstructionError.
\* (STORE [ X ] + D has no comma: tokens.index(',') of line 601 raises the
\* ValueError of Python, and the file fails with that.)
C14_CommaIsValidated ==
    (Settled /\ WrongSeparator) => FailedWith("InstructionError")

----------------------------------------------------------------------------
(* C15: the instructions with too few operand tokens                       *)

\* C15: an instruction with fewer operand tokens than its form fails with
\* ArgumentError.
\* (JUMP without a label fails in findJumpLabels with the IndexError of
\* line_list[1], line 221; INPUTCF [ X + fails with the IndexError of
\* tokens[3], line 392; INPUTCF [ X + B is assembled.)
C15_TooFewOperandsFail ==
    (Settled /\ Family("form") /\ ~Complete) => FailedWith("ArgumentError")

----------------------------------------------------------------------------
(* C16: integerToBinary on -128..255                                       *)

\* the integer v the instruction of the file hands to integerToBinary:
\* the immediate of LOADI, ADDI and SUBI, or the pointer of LOADP
Rendered(v) ==
    \/ Family("imm") /\ Current.path[4] = v
    \/ Family("below") /\ 0 - Current.path[2] = v

\* v AND 0xFF for v in -128..255
And0xFF(v) == IF v < 0 THEN v + 256 ELSE v

BinaryDigits(text, n) == Len(text) = n /\ \A i \in 1..n : text[i] \in {"0", "1"}

\* the text integerToBinary returned: the end of the word, after its last _
Rendering == SubSeq(Words[Len(Words)], 12, Len(Words[Len(Words)]))

\* C16: for every v in -128..255 integerToBinary(v) is a text of exactly
\* eight binary digits whose unsigned value is v AND 0xFF; read as an 8-bit
\* two's-complement integer it is v for v <= 127 and v - 256 above.
C16_RoundTripOfRendering ==
    \A v \in (0 - 128)..255 :
        (Rendered(v) /\ Succeeded) =>
            /\ BinaryDigits(Rendering, 8)
            /\ BitsValue(Rendering) = And0xFF(v)
            /\ Signed8(BitsValue(Rendering)) = IF v <= 127 THEN v ELSE v - 256

\* LOADP A, {X-127} has been assembled: the pointer is -127
C16_Witness ==
    /\ Rendered(0 - 127)
    /\ Succeeded
    /\ Rendering = <<"1", "0", "0", "0", "0", "0", "0", "1">>

----------------------------------------------------------------------------
(* C17: the length of the words and of the bytes                           *)

NotSeparator(c) == c # "_"

\* the word is sixteen binary digits, its _ separators apart
IsWord(word) == BinaryDigits(SelectSeq(word, NotSeparator), 16)

IsByte(byte) == BinaryDigits(byte, 8)

\* C17: after a successful assembly every word of the machine code and of
\* the two code modules has exactly 16 binary digits, the separators apart,
\* and every byte of the data module has exactly 8.
\* (A file with no instruction after .code succeeds: parseCode returns the
\* empty text, whose split at line 800 is one empty line, and slot 0 of
\* User_Code_Low is assigned a word of no digits.)
C17_LengthDiscipline ==
    Succeeded =>
        /\ \A i \in 1..Len(Words) : IsWord(Words[i])
        /\ \A k \in 1..ModuleSlots :
               /\ IsWord(output[Current.path].User_Code_Low[k])
               /\ IsWord(output[Current.path].User_Code_High[k])
        /\ \A k \in 1..Len(output[Current.path].User_Data) :
               IsByte(output[Current.path].User_Data[k])

----------------------------------------------------------------------------
(* C18: the names of the branch table                                      *)

\* the lines of the file that declare a label
Declaring ==
    {i \in 1..Len(Current.lines) :
        IsKept(Current.lines[i]) /\ Find(Current.lines[i], <<":">>) > -1}

\* the name line i declares: its text before the colon
Declared(i) == SliceTo(Current.lines[i], Find(Current.lines[i], <<":">>))

\* C18: in every successful assembly a label name is declared by one line
\* only: no two lines of the file declare the same name.
\* (findJumpLabels assigns _branch_destinations[name] at line 207 without
\* looking for the name in the table, so the last declaration wins.)
C18_LabelsDeclaredOnce ==
    Succeeded => \A i, j \in Declaring : Declared(i) = Declared(j) => i = j

----------------------------------------------------------------------------
(* C19: the indices of the labels                                          *)

\* the zero-based position, in the stream parseCode encodes, of the
\* instruction of line i: the number of kept lines between .code and line i
InstructionIndex(i) ==
    Cardinality({j \in 1..(i - 1) :
                    /\ IsKept(Current.lines[j])
                    /\ \E c \in MarkerLines(DotCode) : c < j})

\* the mnemonic that follows the label on line i
Mnemonic(i) ==
    splitLine(SliceFrom(Current.lines[i], Find(Current.lines[i], <<":">>) + 1), <<>>)[1]

\* no other line declares the name of line i
DeclaredOnce(i) == \A j \in Declaring : Declared(j) = Declared(i) => j = i

\* C19: after a successful assembly, the name a line declares (and no other
\* line declares) is bound to the zero-based position of the instruction of
\* that line in the machine code, where the word of that instruction
\* stands; and every value of the branch table is the position of an
\* instruction of the program, on a line that declares the name.
C19_LabelsIndexInstructions ==
    Succeeded =>
        /\ \A i \in Declaring :
               DeclaredOnce(i) =>
                   /\ Declared(i) \in DOMAIN _branch_destinations
                   /\ _branch_destinations[Declared(i)] = InstructionIndex(i)
                   /\ SubSeq(Words[InstructionIndex(i) + 1], 1, 5)
                          = _instruction_dictionary[Mnemonic(i)]
        /\ \A name \in DOMAIN _branch_destinations :
               /\ _branch_destinations[name] \in 0..(Len(Words) - 1)
               /\ \E i \in Declaring :
                      /\ Declared(i) = name
                      /\ InstructionIndex(i) = _branch_destinations[name]

\* a program with a comment before its code, whose third instruction line
\* alone declares L, has been assembled: L is 2, and JUMP L, the fifth
\* instruction, jumps back by three
C19_Witness ==
    /\ Family("labels")
    /\ Current.path[2] = 3 /\ Current.path[3] = 3
    /\ Succeeded
    /\ _branch_destinations = (<<"L">> :> 2)
    /\ Len(Words) = 5
    /\ Words[5] = _instruction_dictionary[JUMP] \o F00 \o F00
                  \o <<"1", "1", "1", "1", "1", "1", "0", "1">>

----------------------------------------------------------------------------
(* C20: the register STORE and STOREF store                                *)

\* the address of V, plus or minus the literal offset of the instruction
StoreAddress ==
    CASE Current.path[5] = 0 -> 1
      [] Current.path[5] = 1 -> 1 + Current.path[6]
      [] Current.path[5] = 2 -> 1 - Current.path[6]

\* C20: STORE [V (op k)?], Rs is assembled to the word `1010 Rs 00 addr` and
\* STOREF [V + Ri (op k)?], Rs to `1011 Rs Ri addr`: field A is the register
\* that follows the comma, with and without the offset in the bracket, and
\* addr is the address of V adjusted by op k.
C20_StoreRegisterFollowsComma ==
    (Settled /\ Family("store")) =>
        /\ Succeeded
        /\ Len(Words) = 1
        /\ SubSeq(Words[1], 1, 11) =
               _instruction_dictionary[IF Current.path[2] = 1 THEN STORE ELSE STOREF]
               \o _register_values[<<Registers[Current.path[3]]>>]
               \o (IF Current.path[2] = 1 THEN F00
                   ELSE _register_values[<<Registers[Current.path[4]]>>])
        /\ BinaryDigits(SubSeq(Words[1], 12, Len(Words[1])), 8)
        /\ Low8(Words[1]) = StoreAddress

\* STOREF [V + D + 1], C has been assembled
C20_Witness ==
    /\ Family("store")
    /\ Current.path = <<"store", 2, 3, 4, 1, 1>>
    /\ Succeeded
    /\ Words[1] = <<"1", "0", "1", "1", "_", "1", "0", "_", "1", "1", "_",
                    "0", "0", "0", "0", "0", "0", "1", "0">>

----------------------------------------------------------------------------
(* C21: the order of the passes and the tables during the last two         *)

\* the step goes from pass from to pass to, or gives the file up
Then(from, to) == pc = from => pc' \in {to, "next"}

\* C21: for each file the passes run in the order analyzeFile,
\* findJumpLabels, assignVariables, parseCode, writeVerilogFiles, a failure
\* leading to the next file; and no step of parseCode or of
\* writeVerilogFiles changes _branch_destinations or _variables.
C21_PassOrderAndFrame ==
    [][/\ pc = "next" => pc' \in {"analyzeFile", "done"}
       /\ Then("analyzeFile", "findJumpLabels")
       /\ Then("findJumpLabels", "assignVariables")
       /\ Then("assignVariables", "parseCode")
       /\ Then("parseCode", "writeVerilogFiles")
       /\ Then("writeVerilogFiles", "next")
       /\ pc \in {"parseCode", "writeVerilogFiles"} =>
              UNCHANGED <<_branch_destinations, _variables>>]_vars

\* a file that declares X and L has gone through parseCode and
\* writeVerilogFiles, and both tables hold what passes 2 and 3 put in them
C21_Witness ==
    /\ Succeeded
    /\ Current.path = <<"mixed", 1>>
    /\ _branch_destinations = (<<"L">> :> 0)
    /\ HasVariable(_variables, <<"X">>)
    /\ findDataAddress(<<"X">>, _variables) = 0

----------------------------------------------------------------------------
(* C22: the data image and the addresses                                   *)

\* the data module of the current file
Image == output[Current.path].User_Data

\* the number of bytes of symbol s of the table, and the value of its
\* element i, counted from 0
SymbolLength(s) == IF _variables[s].is_list THEN Len(_variables[s].values) ELSE 1

Element(s, i) ==
    IF _variables[s].is_list THEN DecimalValue(_variables[s].values[i + 1])
    ELSE _variables[s].value

\* the slots of the image a symbol of the table covers
Covered ==
    UNION {(_variables[s].data_address + 1)
              ..(_variables[s].data_address + SymbolLength(s)) :
           s \in 1..Len(_variables)}

\* C22: after a successful assembly the data image has exactly 16 slots;
\* for every symbol s of the table and every i below its length, slot
\* offset(s) + i holds the eight binary digits of element i AND 0xFF; and
\* every slot no symbol covers holds 00000000.
\* (`X BYTE 1, ?` is stored as one byte and counted as two, so the byte of
\* the next symbol stands one slot below its address; a name declared twice
\* keeps its place in the table and takes a new address; and an array of
\* more than sixteen values makes an image of more than sixteen slots.)
C22_ImageAgreesWithAddresses ==
    Succeeded =>
        /\ Len(Image) = ModuleSlots
        /\ \A s \in 1..Len(_variables) : \A i \in 0..(SymbolLength(s) - 1) :
               /\ _variables[s].data_address + i + 1 \in 1..Len(Image)
               /\ IsByte(Image[_variables[s].data_address + i + 1])
               /\ BitsValue(Image[_variables[s].data_address + i + 1])
                      = Element(s, i) % 256
        /\ \A k \in 1..Len(Image) : k \notin Covered => Image[k] = Zero8

====
